---- MODULE Spec2Model ----
(***************************************************************************)
(* async-file: promise wrappers over the Node.js fs API, with recursive    *)
(* directory creation (createDirectory / mkdirp), recursive deletion       *)
(* (delete / rimraf) and an existence probe (exists).                      *)
(*                                                                         *)
(* The filesystem is a map from the canonical paths that have an entry     *)
(* (sequences of names below the root) to that entry.  The fs primitives the wrappers call are modelled *)
(* with POSIX path resolution (symbolic links, ENOENT, ENOTDIR, ELOOP,     *)
(* EEXIST).  Every step of mkdirp is one filesystem call together with the *)
(* callback that receives its result.                                      *)
(***************************************************************************)
EXTENDS Naturals, Sequences, FiniteSets

VARIABLES fs, inv, pre

vars == <<fs, inv, pre>>

(* ------------------------------ bounds --------------------------------- *)

\* longest path (in segments) below the root
MaxDepth == 3
\* most entries the filesystem holds below the root
MaxEntries == 3
\* most bytes a file holds
MaxBytes == 2
\* most mkdirp frames of one createDirectory that wait for their parent
MaxFrames == 6

Names == {"a", "b"}
Procs == {1, 2}
Main == 1

(* ------------------------------ paths ---------------------------------- *)

SeqsUpTo(S, n) == UNION {[1..k -> S] : k \in 0..n}

\* canonical absolute paths: <<>> is the root
Paths == SeqsUpTo(Names, MaxDepth)

\* paths a caller passes: canonical ones, and ones ending in a "." segment
InputPaths == Paths \cup {Append(q, ".") : q \in SeqsUpTo(Names, MaxDepth - 1)}

\* targets a symbolic link may name, and the paths links are made at
LinkTargets == {<<n>> : n \in Names}
LinkPaths == LinkTargets

\* no walk over a loop-free link structure needs more hops than this
MaxHops == 2 * MaxDepth

NotDot(s) == s # "."

\* pathutil.resolve: an absolute path without "." segments
Resolve(p) == SelectSeq(p, NotDot)

\* pathutil.dirname: the parent; the root is its own parent
Dirname(p) == IF p = <<>> THEN <<>> ELSE SubSeq(p, 1, Len(p) - 1)

Prefixes(p) == {SubSeq(p, 1, k) : k \in 0..Len(p)}

IsPrefix(q, p) == Len(q) <= Len(p) /\ SubSeq(p, 1, Len(q)) = q

(* --------------------------- filesystem -------------------------------- *)

\* an entry: its kind, the path a link names, the bytes a regular file holds
Dir == [kind |-> "dir", target |-> <<>>, data |-> <<>>]
FileOf(bytes) == [kind |-> "file", target |-> <<>>, data |-> bytes]
File == FileOf(<<>>)
Link(t) == [kind |-> "link", target |-> t, data |-> <<>>]

\* only the root directory
EmptyFs == [q \in {<<>>} |-> Dir]

\* not even a root directory: the paths name a volume that is not there
\* (on Windows, a drive letter with no drive)
NoVolume == [q \in {} |-> Dir]

\* the kind of the entry at canonical path q
Kind(f, q) == IF q \in DOMAIN f THEN f[q].kind ELSE "none"

\* f with entry e put at q
Put(f, q, e) == [x \in DOMAIN f \cup {q} |-> IF x = q THEN e ELSE f[x]]

\* f without q and everything below q
Cut(f, q) == [x \in {y \in DOMAIN f : ~IsPrefix(q, y)} |-> f[x]]

\* entries below the root
Count(f) == Cardinality(DOMAIN f \ {<<>>})

\* POSIX path resolution from directory cur over the remaining segments.
\*   found:  the path names the entry at canonical path `at`
\*   absent: every directory on the way exists, the last segment has no entry
\*   fail:   resolution failed with errno `code`
RECURSIVE Walk(_, _, _, _, _)
Walk(f, cur, segs, follow, hops) ==
    IF <<>> \notin DOMAIN f THEN [st |-> "fail", at |-> <<>>, code |-> "ENOENT"]
    ELSE IF segs = <<>> THEN [st |-> "found", at |-> cur, code |-> "OK"]
    ELSE LET s == Head(segs)
             rest == Tail(segs)
         IN  IF s = "." THEN Walk(f, cur, rest, follow, hops)
             ELSE LET child == Append(cur, s)
                      k == Kind(f, child)
                  IN  CASE k = "none" ->
                               IF rest = <<>>
                               THEN [st |-> "absent", at |-> child, code |-> "ENOENT"]
                               ELSE [st |-> "fail", at |-> child, code |-> "ENOENT"]
                        [] k = "dir" -> Walk(f, child, rest, follow, hops)
                        [] k = "file" ->
                               IF rest = <<>>
                               THEN [st |-> "found", at |-> child, code |-> "OK"]
                               ELSE [st |-> "fail", at |-> child, code |-> "ENOTDIR"]
                        [] k = "link" ->
                               IF rest = <<>> /\ ~follow
                               THEN [st |-> "found", at |-> child, code |-> "OK"]
                               ELSE IF hops = 0
                                    THEN [st |-> "fail", at |-> child, code |-> "ELOOP"]
                                    ELSE Walk(f, <<>>, f[child].target \o rest, follow, hops - 1)

(* ------------------------------ errors --------------------------------- *)

Null == [code |-> "null", syscall |-> "", path |-> <<>>, message |-> ""]

\* an error reported by the platform
SysErr(code, syscall, p) ==
    [code |-> code, syscall |-> syscall, path |-> p, message |-> ""]

\* new Error(path + ' is already a file')
AlreadyAFile(p) ==
    [code |-> "", syscall |-> "", path |-> p, message |-> "is already a file"]

(* ------------------------------- text ---------------------------------- *)

\* A string is a sequence of code points, a file a sequence of bytes.
\* The strings written: '', 'h' and the non-ASCII 'e-acute' (U+00E9).
Data == {<<>>, <<104>>, <<233>>}

\* the encodings modelled, of type Encoding: 'utf8' and 'binary' (latin1)
Encodings == {"utf8", "binary"}

\* what a caller may pass for an encoding
EncodingArgs == Encodings \cup {"undefined", "null"}

\* an argument that was left out, or passed as null
Undefined == <<"undefined">>
NullArg == <<"null">>

\* type Flags, a string as the sequence of its characters
Flags ==
    {<<"r">>, <<"r", "+">>, <<"r", "s">>, <<"r", "s", "+">>,
     <<"w">>, <<"w", "x">>, <<"w", "+">>, <<"w", "x", "+">>,
     <<"a">>, <<"a", "x">>, <<"a", "+">>, <<"a", "x", "+">>}

FlagArgs == Flags \cup {Undefined, NullArg}

\* Buffer.from(s, 'utf8') for code points below U+0800
RECURSIVE Utf8Encode(_)
Utf8Encode(s) ==
    IF s = <<>> THEN <<>>
    ELSE LET c == Head(s)
         IN  (IF c < 128 THEN <<c>> ELSE <<192 + (c \div 64), 128 + (c % 64)>>)
                 \o Utf8Encode(Tail(s))

\* buffer.toString('utf8'): a byte that starts no valid sequence decodes to
\* U+FFFD
RECURSIVE Utf8Decode(_)
Utf8Decode(b) ==
    IF b = <<>> THEN <<>>
    ELSE IF Head(b) < 128 THEN <<Head(b)>> \o Utf8Decode(Tail(b))
    ELSE IF /\ Head(b) \in 194..223
            /\ Len(b) >= 2
            /\ b[2] \in 128..191
         THEN <<(Head(b) - 192) * 64 + (b[2] - 128)>> \o Utf8Decode(Tail(Tail(b)))
         ELSE <<65533>> \o Utf8Decode(Tail(b))

\* Buffer.from(s, enc): 'binary' keeps the low byte of each code point
Encode(s, enc) ==
    IF enc = "binary" THEN [k \in 1..Len(s) |-> s[k] % 256] ELSE Utf8Encode(s)

\* buffer.toString(enc)
Decode(b, enc) == IF enc = "binary" THEN b ELSE Utf8Decode(b)

(* ---------------------------- primitives ------------------------------- *)

\* fs.mkdir: does not follow a link in the last segment
FsMkdir(f, p) ==
    LET r == Walk(f, <<>>, p, FALSE, MaxHops)
    IN  CASE r.st = "found" ->
                 [err |-> SysErr("EEXIST", "mkdir", p), fs |-> f, at |-> r.at]
          [] r.st = "absent" ->
                 [err |-> Null, fs |-> Put(f, r.at, Dir), at |-> r.at]
          [] r.st = "fail" ->
                 [err |-> SysErr(r.code, "mkdir", p), fs |-> f, at |-> r.at]

\* fs.stat: follows links
FsStat(f, p) ==
    LET r == Walk(f, <<>>, p, TRUE, MaxHops)
    IN  IF r.st = "found"
        THEN [err |-> Null, kind |-> Kind(f, r.at)]
        ELSE [err |-> SysErr(r.code, "stat", p), kind |-> "none"]

\* fs.lstat: reports on a link in the last segment itself
FsLstat(f, p) ==
    LET r == Walk(f, <<>>, p, FALSE, MaxHops)
    IN  IF r.st = "found"
        THEN [err |-> Null, kind |-> Kind(f, r.at)]
        ELSE [err |-> SysErr(r.code, "lstat", p), kind |-> "none"]

\* fs.unlink: removes a file or a link, never a directory
FsUnlink(f, p) ==
    LET r == Walk(f, <<>>, p, FALSE, MaxHops)
    IN  CASE r.st = "found" /\ Kind(f, r.at) = "dir" ->
                 [err |-> SysErr("EISDIR", "unlink", p), fs |-> f]
          [] r.st = "found" /\ Kind(f, r.at) # "dir" ->
                 [err |-> Null, fs |-> Cut(f, r.at)]
          [] r.st # "found" ->
                 [err |-> SysErr(r.code, "unlink", p), fs |-> f]

\* fs.symlink: creates a link entry at p naming target t
FsSymlink(f, t, p) ==
    LET r == Walk(f, <<>>, p, FALSE, MaxHops)
    IN  CASE r.st = "found" ->
                 [err |-> SysErr("EEXIST", "symlink", p), fs |-> f]
          [] r.st = "absent" ->
                 [err |-> Null, fs |-> Put(f, r.at, Link(t))]
          [] r.st = "fail" ->
                 [err |-> SysErr(r.code, "symlink", p), fs |-> f]

\* the options a caller hands to fs.readFile, fs.writeFile or fs.appendFile:
\* the primitives read the keys `encoding` and `flag`; a key `flags` is not
\* one of theirs
Options(encoding, flag, flags) ==
    [encoding |-> encoding, flag |-> flag, flags |-> flags]

\* what an open flag asks for
Creates(flag) == flag[1] \in {"w", "a"}
Truncates(flag) == flag[1] = "w"
Appends(flag) == flag[1] = "a"
Exclusive(flag) == \E k \in DOMAIN flag : flag[k] = "x"
Plus(flag) == \E k \in DOMAIN flag : flag[k] = "+"
Writable(flag) == Creates(flag) \/ Plus(flag)
Readable(flag) == flag[1] = "r" \/ Plus(flag)

\* fs.open(p, flag): follows links, except that an exclusive open fails on
\* any entry at p; a directory cannot be opened for writing
FsOpen(f, p, flag) ==
    LET r == Walk(f, <<>>, p, TRUE, MaxHops)
        l == Walk(f, <<>>, p, FALSE, MaxHops)
    IN  CASE Exclusive(flag) /\ l.st = "found" ->
                 [err |-> SysErr("EEXIST", "open", p), fs |-> f, at |-> l.at]
          [] ~(Exclusive(flag) /\ l.st = "found") /\ r.st = "fail" ->
                 [err |-> SysErr(r.code, "open", p), fs |-> f, at |-> r.at]
          [] ~(Exclusive(flag) /\ l.st = "found") /\ r.st = "absent" ->
                 IF Creates(flag)
                 THEN [err |-> Null, fs |-> Put(f, r.at, File), at |-> r.at]
                 ELSE [err |-> SysErr("ENOENT", "open", p), fs |-> f, at |-> r.at]
          [] ~(Exclusive(flag) /\ l.st = "found") /\ r.st = "found" ->
                 IF Kind(f, r.at) = "dir"
                 THEN IF Writable(flag)
                      THEN [err |-> SysErr("EISDIR", "open", p), fs |-> f, at |-> r.at]
                      ELSE [err |-> Null, fs |-> f, at |-> r.at]
                 ELSE IF Truncates(flag)
                      THEN [err |-> Null, fs |-> Put(f, r.at, File), at |-> r.at]
                      ELSE [err |-> Null, fs |-> f, at |-> r.at]

\* the bytes of a file after `bytes` were written at its start
Overwrite(old, bytes) ==
    IF Len(bytes) >= Len(old) THEN bytes
    ELSE bytes \o SubSeq(old, Len(bytes) + 1, Len(old))

\* what fs.writeFile does once the flag is known: open, encode (no encoding
\* means utf8), write at the end when appending and at the start otherwise
WriteWithFlag(f, p, data, encoding, flag) ==
    LET o == FsOpen(f, p, flag)
        bytes == Encode(data, IF encoding \in Encodings THEN encoding ELSE "utf8")
    IN  IF o.err # Null THEN [err |-> o.err, fs |-> f]
        ELSE IF ~Writable(flag) THEN [err |-> SysErr("EBADF", "write", p), fs |-> o.fs]
        ELSE [err |-> Null,
              fs |-> Put(o.fs, o.at,
                         FileOf(IF Appends(flag) THEN o.fs[o.at].data \o bytes
                                ELSE Overwrite(o.fs[o.at].data, bytes)))]

\* fs.writeFile(p, data, options): the flag is options.flag, 'w' when missing
FsWriteFile(f, p, data, options) ==
    WriteWithFlag(f, p, data, options.encoding,
                  IF options.flag \in Flags THEN options.flag ELSE <<"w">>)

\* fs.appendFile(p, data, options): the flag is options.flag, 'a' when missing
FsAppendFile(f, p, data, options) ==
    WriteWithFlag(f, p, data, options.encoding,
                  IF options.flag \in Flags THEN options.flag ELSE <<"a">>)

\* what a read operation yields
NoText == [type |-> "none", content |-> <<>>]
Text(type, content) == [type |-> type, content |-> content]

\* fs.readFile(p, options): the flag is options.flag, 'r' when missing; the
\* result is a string when an encoding is given and a Buffer otherwise
FsReadFile(f, p, options) ==
    LET flag == IF options.flag \in Flags THEN options.flag ELSE <<"r">>
        o == FsOpen(f, p, flag)
    IN  IF o.err # Null THEN [err |-> o.err, fs |-> f, result |-> NoText]
        ELSE IF ~Readable(flag)
        THEN [err |-> SysErr("EBADF", "read", p), fs |-> o.fs, result |-> NoText]
        ELSE IF Kind(o.fs, o.at) = "dir"
        THEN [err |-> SysErr("EISDIR", "read", p), fs |-> o.fs, result |-> NoText]
        ELSE [err |-> Null, fs |-> o.fs,
              result |-> IF options.encoding \in Encodings
                         THEN Text("string", Decode(o.fs[o.at].data, options.encoding))
                         ELSE Text("buffer", o.fs[o.at].data)]

\* fs.access(p): with no permissions modelled, p is accessible when it
\* resolves (links followed)
FsAccess(f, p) ==
    LET r == Walk(f, <<>>, p, TRUE, MaxHops)
    IN  IF r.st = "found" THEN Null ELSE SysErr(r.code, "access", p)

\* rimraf(p): lstat; a missing path is success; a directory is emptied and
\* removed; anything else is unlinked; other errors are reported
Rimraf(f, p) ==
    LET r == Walk(f, <<>>, p, FALSE, MaxHops)
    IN  CASE r.code = "ENOENT" -> [err |-> Null, fs |-> f]
          [] r.st = "fail" /\ r.code # "ENOENT" ->
                 [err |-> SysErr(r.code, "unlink", p), fs |-> f]
          [] r.st = "found" /\ Kind(f, r.at) # "dir" ->
                 [err |-> Null, fs |-> Cut(f, r.at)]
          [] r.st = "found" /\ Kind(f, r.at) = "dir" ->
                 IF p # <<>> /\ p[Len(p)] = "."
                 THEN [err |-> SysErr("EINVAL", "rmdir", p), fs |-> f]
                 ELSE IF r.at = <<>>
                 THEN [err |-> SysErr("EBUSY", "rmdir", p), fs |-> f]
                 ELSE [err |-> Null, fs |-> Cut(f, r.at)]

(* ---------------------- descriptors, read and write --------------------- *)

\* JavaScript values that can end up in a result of read or write
Num(n) == [tag |-> "number", n |-> n, bytes |-> <<>>]
Buf(b) == [tag |-> "Buffer", n |-> Len(b), bytes |-> b]
NullValue == [tag |-> "null", n |-> 0, bytes |-> <<>>]
\* an `arguments` object with n entries
ArgumentsObject(n) == [tag |-> "arguments", n |-> n, bytes |-> <<>>]
FunctionValue == [tag |-> "function", n |-> 0, bytes |-> <<>>]

\* {bytesRead, buffer} or {written, buffer}
Result(count, buffer) == [count |-> count, buffer |-> buffer]
NoResult == Result(NullValue, NullValue)

\* a descriptor that open(p, flag) returned, and one that was closed since
Fd(p, flag) == [open |-> TRUE, at |-> p, flag |-> flag]
ClosedFd == [open |-> FALSE, at |-> <<>>, flag |-> <<"r">>]

\* fd refers to a file of f that was opened with a flag allowing the access
Usable(f, fd, writing) ==
    /\ fd.open
    /\ Kind(f, fd.at) = "file"
    /\ IF writing THEN Writable(fd.flag) ELSE Readable(fd.flag)

Min(a, b) == IF a < b THEN a ELSE b

\* fs.read(fd, buffer, offset, length, position, callback): up to `length`
\* bytes of the file from `position` on go into the buffer at `offset`;
\* the callback gets (err, bytesRead, buffer)
FsRead(f, fd, buffer, offset, length, position) ==
    IF ~Usable(f, fd, FALSE)
    THEN [err |-> SysErr("EBADF", "read", <<>>), count |-> 0, buffer |-> buffer, fs |-> f]
    ELSE LET data == f[fd.at].data
             left == IF Len(data) > position THEN Len(data) - position ELSE 0
             n == Min(length, left)
         IN  [err |-> Null, count |-> n,
              buffer |-> [k \in 1..Len(buffer) |->
                             IF k > offset /\ k <= offset + n
                             THEN data[position + k - offset]
                             ELSE buffer[k]],
              fs |-> f]

\* fs.write(fd, buffer, offset, length, position, callback): `length` bytes
\* of the buffer from `offset` on go into the file at `position`; the
\* callback gets (err, written, buffer)
FsWrite(f, fd, buffer, offset, length, position) ==
    IF ~Usable(f, fd, TRUE)
    THEN [err |-> SysErr("EBADF", "write", <<>>), count |-> 0, buffer |-> buffer, fs |-> f]
    ELSE LET data == f[fd.at].data
             size == IF position + length > Len(data) THEN position + length ELSE Len(data)
         IN  [err |-> Null, count |-> length, buffer |-> buffer,
              fs |-> Put(f, fd.at,
                         FileOf([k \in 1..size |->
                                    IF k > position /\ k <= position + length
                                    THEN buffer[offset + k - position]
                                    ELSE IF k <= Len(data) THEN data[k] ELSE 0]))]

(* ---------------------------- invocations ------------------------------ *)

\* pc: idle, mkdir (fs.mkdir(cur) issued), stat (fs.stat(cur) issued), done.
\* stack: the paths whose mkdirp waits for the mkdirp of its parent.
\* made: the directories this invocation created, in order of creation.
\* prevOp, prevRel: for exists and createDirectory, the operation this process
\* completed successfully just before, when that one was on the same path
\* ("same") or on a path below this one ("under").
\* args: the data, encoding and flags a text-file accessor was called with.
\* target, options: the primitive it called and the options it handed over.
\* old: the entry the path of writeTextFile led to before the call.
\* text: what readTextFile resolved with.
\* calls: how often resolve or reject was called.
\* result: what read or write resolved with.
\* reported: what fs.read or fs.write handed to its callback.
Idle ==
    [op |-> "none", path |-> <<>>, cur |-> <<>>, stack |-> <<>>, pc |-> "idle",
     outcome |-> "pending", err |-> Null, val |-> "none",
     prevOp |-> "none", prevRel |-> "other", made |-> <<>>,
     args |-> [data |-> <<>>, encoding |-> "undefined", flags |-> Undefined],
     target |-> "none", options |-> Options("undefined", Undefined, Undefined),
     old |-> [kind |-> "none", data |-> <<>>],
     text |-> NoText, calls |-> 0,
     result |-> NoResult, reported |-> NoResult]

Ready(i) == inv[i].pc \in {"idle", "done"}

Rel(v, op, p) ==
    IF v.pc # "done" \/ v.outcome # "resolved" \/ op \notin {"exists", "createDirectory"}
    THEN "other"
    ELSE IF v.path = p THEN "same"
    ELSE IF IsPrefix(Resolve(p), Resolve(v.path)) /\ Resolve(p) # Resolve(v.path)
         THEN "under"
         ELSE "other"

\* a fresh invocation of op on p by a process whose last invocation was v
Start(v, op, p) ==
    [Idle EXCEPT !.op = op, !.path = p,
                 !.prevOp = IF Rel(v, op, p) = "other" THEN "none" ELSE v.op,
                 !.prevRel = Rel(v, op, p)]

Resolved(v, val) ==
    [v EXCEPT !.pc = "done", !.outcome = "resolved", !.err = Null, !.val = val,
              !.stack = <<>>, !.calls = @ + 1]

Rejected(v, e) ==
    [v EXCEPT !.pc = "done", !.outcome = "rejected", !.err = e, !.val = "none",
              !.stack = <<>>, !.calls = @ + 1]

\* the result of a primitive that yields nothing
Void == [val |-> "void", text |-> NoText]

\* the result of a primitive that yields file content
Content(t) == [val |-> "text", text |-> t]

\* promisify that takes "no such entry" for a result
PromisifyRecovering(v, err, result) ==
    IF err # Null /\ err.code # "ENOENT" THEN Rejected(v, err)
    ELSE [Resolved(v, result.val) EXCEPT !.text = result.text]

\* promisify's callback: (err, result) => err ? reject(err) : resolve(result)
Promisify(v, err, result) ==
    IF err # Null THEN Rejected(v, err)
    ELSE [Resolved(v, result.val) EXCEPT !.text = result.text]

\* the resolver of read and write:
\*   function () { return { bytesRead: arguments[1], buffer: arguments[2] }; }
\* (a is the resolver's `arguments`, counted from 1 here)
Resolver(a) == Result(a[2], a[3])

\* `arguments` where promisify's callback mentions it. The callback and the
\* promise executor around it are arrow functions, in the source and in the
\* compiled index.js alike, so the name denotes the arguments of promisify
\* itself: (target, args, context, resolver)
Arguments(args, context) == <<FunctionValue, args, context, FunctionValue>>

\* promisify's callback when a resolver is given:
\*   err ? reject(err) : resolve(resolver.apply(context, arguments))
\* r is what the primitive handed to the callback, args the arguments of
\* the wrapper
PromisifyResolver(v, r, args, context) ==
    LET w == [v EXCEPT !.reported = Result(Num(r.count), Buf(r.buffer))]
    IN  IF r.err # Null THEN Rejected(w, r.err)
        ELSE [Resolved(w, "result") EXCEPT !.result = Resolver(Arguments(args, context))]

\* thunk's callback in src/index.ts when a resolver is given:
\*   if (err) reject(err); else if (resolver) resolver.apply(context, arguments);
\* the resolver's value is dropped and the promise stays pending
ThunkResolver(v, r, args, context) ==
    LET w == [v EXCEPT !.reported = Result(Num(r.count), Buf(r.buffer))]
    IN  IF r.err # Null THEN Rejected(w, r.err)
        ELSE [w EXCEPT !.pc = "await"]

\* createDirectory's callback: err => !err ? resolve() : reject(err)
CreateDirectorySettle(v, err) ==
    IF err = Null THEN Resolved(v, "void") ELSE Rejected(v, err)

\* mkdirp that does not retry the child once the parent is there
RECURSIVE MkdirpDoneNoRetry(_, _)
MkdirpDoneNoRetry(v, err) ==
    IF v.stack = <<>> THEN CreateDirectorySettle(v, err)
    ELSE MkdirpDoneNoRetry([v EXCEPT !.stack = Tail(v.stack)], err)

\* the `done` of the mkdirp frame that is running: createDirectory's callback
\* for the outermost frame, otherwise
\*   err => !err ? mkdirp(path, mode, done) : done(err)
RECURSIVE MkdirpDone(_, _)
MkdirpDone(v, err) ==
    IF v.stack = <<>> THEN CreateDirectorySettle(v, err)
    ELSE IF err = Null
         THEN [v EXCEPT !.cur = Resolve(Head(v.stack)), !.stack = Tail(v.stack),
                        !.pc = "mkdir"]
         ELSE MkdirpDone([v EXCEPT !.stack = Tail(v.stack)], err)

\* mkdirp without the walk to the parent: ENOENT is handled like any other error
MkdirCallbackNoParent(v, r) ==
    IF r.err = Null
    THEN MkdirpDone([v EXCEPT !.made = Append(@, r.at)], Null)
    ELSE [v EXCEPT !.pc = "stat"]

\* mkdirp that takes ENOTDIR for a missing ancestor, as it takes ENOENT
MkdirCallbackNotDirAsMissing(v, r) ==
    IF r.err = Null
    THEN MkdirpDone([v EXCEPT !.made = Append(@, r.at)], Null)
    ELSE IF r.err.code \in {"ENOENT", "ENOTDIR"}
         THEN [v EXCEPT !.cur = Resolve(Dirname(v.cur)),
                        !.stack = <<v.cur>> \o v.stack, !.pc = "mkdir"]
         ELSE [v EXCEPT !.pc = "stat"]

\* mkdirp without the second look: every error but ENOENT is reported
MkdirCallbackNoStat(v, r) ==
    IF r.err = Null
    THEN MkdirpDone([v EXCEPT !.made = Append(@, r.at)], Null)
    ELSE IF r.err.code = "ENOENT"
         THEN [v EXCEPT !.cur = Resolve(Dirname(v.cur)),
                        !.stack = <<v.cur>> \o v.stack, !.pc = "mkdir"]
         ELSE MkdirpDone(v, r.err)

\* mkdirp that takes a directory somebody else made meanwhile for a failure:
\* EEXIST is reported without the second look
MkdirCallbackExistsFatal(v, r) ==
    IF r.err = Null
    THEN MkdirpDone([v EXCEPT !.made = Append(@, r.at)], Null)
    ELSE IF r.err.code = "ENOENT"
         THEN [v EXCEPT !.cur = Resolve(Dirname(v.cur)),
                        !.stack = <<v.cur>> \o v.stack, !.pc = "mkdir"]
         ELSE IF r.err.code = "EEXIST" THEN MkdirpDone(v, r.err)
         ELSE [v EXCEPT !.pc = "stat"]

\* the callback of fs.mkdir in mkdirp; r is what fs.mkdir did
MkdirCallback(v, r) ==
    IF r.err = Null
    THEN MkdirpDone([v EXCEPT !.made = Append(@, r.at)], Null)
    ELSE IF r.err.code = "ENOENT"
         THEN [v EXCEPT !.cur = Resolve(Dirname(v.cur)),
                        !.stack = <<v.cur>> \o v.stack, !.pc = "mkdir"]
         ELSE [v EXCEPT !.pc = "stat"]

\* mkdirp without the isDirectory test: whatever fs.stat finds is accepted
StatCallbackAnyKind(v, r) ==
    IF r.err # Null THEN MkdirpDone(v, r.err) ELSE MkdirpDone(v, Null)

\* mkdirp that reports a non-directory with the error of fs.mkdir
StatCallbackPlainError(v, r) ==
    IF r.err # Null THEN MkdirpDone(v, r.err)
    ELSE IF r.kind # "dir" THEN MkdirpDone(v, SysErr("EEXIST", "mkdir", v.cur))
    ELSE MkdirpDone(v, Null)

\* the callback of fs.stat in mkdirp; r is what fs.stat reported
StatCallback(v, r) ==
    IF r.err # Null THEN MkdirpDone(v, r.err)
    ELSE IF r.kind # "dir" THEN MkdirpDone(v, AlreadyAFile(v.cur))
    ELSE MkdirpDone(v, Null)

\* the metadata query exists makes: fs.lstat(path, ...)
ExistsProbeFollows(f, p) == FsStat(f, p)

ExistsProbe(f, p) == FsLstat(f, p)

\* exists with ENOENT reported like any other error
ExistsSettleNoRecover(v, err) ==
    IF err = Null THEN Resolved(v, "true") ELSE Rejected(v, err)

\* exists with every error taken for "no such entry"
ExistsSettleCoerce(v, err) ==
    IF err = Null THEN Resolved(v, "true") ELSE Resolved(v, "false")

\* exists' callback:
\*   err => !err ? resolve(true) : err.code === 'ENOENT' ? resolve(false) : reject(err)
ExistsSettle(v, err) ==
    IF err = Null THEN Resolved(v, "true")
    ELSE IF err.code = "ENOENT" THEN Resolved(v, "false")
    ELSE Rejected(v, err)

\* del with the error of rimraf dropped
DelSettleSwallow(v, err) == Resolved(v, "void")

\* del's callback: err => !err ? resolve() : reject(err)
DelSettle(v, err) ==
    IF err = Null THEN Resolved(v, "void") ELSE Rejected(v, err)

\* access that answers false only to "no such entry", as exists does
AccessSettleRejecting(v, err) ==
    IF err = Null THEN Resolved(v, "true")
    ELSE IF err.code = "ENOENT" THEN Resolved(v, "false")
    ELSE Rejected(v, err)

\* access' callback: err => !err ? resolve(true) : resolve(false)
AccessSettle(v, err) ==
    IF err = Null THEN Resolved(v, "true") ELSE Resolved(v, "false")

\* readTextFile's defaults and the options it builds:
\*   if (encoding === undefined) encoding = 'utf8';
\*   if (flags === undefined || flags === null) flags = 'r';
\*   {encoding: encoding, flags: flags}
ReadTextFileOptions(encoding, flags) ==
    Options(IF encoding = "undefined" THEN "utf8" ELSE encoding,
            Undefined,
            IF flags = Undefined \/ flags = NullArg THEN <<"r">> ELSE flags)

\* writeTextFile's defaults and the options it builds:
\*   if (encoding === undefined) encoding = 'utf8';
\*   if (flags === undefined || flags === null) flags = 'w';
\*   {encoding: encoding, flags: flags, mode: mode}
WriteTextFileOptions(encoding, flags) ==
    Options(IF encoding = "undefined" THEN "utf8" ELSE encoding,
            Undefined,
            IF flags = Undefined \/ flags = NullArg THEN <<"w">> ELSE flags)

\* writeTextFile that always calls fs.writeFile
WriteTextFileTargetNoAppend(options) == "writeFile"

\* writeTextFile that always calls fs.appendFile
WriteTextFileTargetAlwaysAppend(options) == "appendFile"

\* the primitive writeTextFile calls: flags[0] === 'a' ? fs.appendFile : fs.writeFile
WriteTextFileTarget(options) ==
    IF options.flags[1] = "a" THEN "appendFile" ELSE "writeFile"

\* the call of that primitive
WriteTextFileCall(f, p, data, options) ==
    IF WriteTextFileTarget(options) = "appendFile"
    THEN FsAppendFile(f, p, data, options)
    ELSE FsWriteFile(f, p, data, options)

\* the entry p leads to (links followed), as writeTextFile finds it
Entry(f, p) ==
    LET r == Walk(f, <<>>, p, TRUE, MaxHops)
    IN  IF r.st = "found" THEN [kind |-> f[r.at].kind, data |-> f[r.at].data]
        ELSE [kind |-> "none", data |-> <<>>]

\* mkdirp(path, mode, done) up to its fs.mkdir: the path is resolved
Mkdirp(v) == [v EXCEPT !.cur = Resolve(v.path), !.pc = "mkdir"]

\* entries that creating every directory on p could add
Missing(f, p) ==
    Cardinality({q \in Prefixes(p) : Walk(f, <<>>, q, FALSE, MaxHops).st # "found"})

(* ------------------------------ actions -------------------------------- *)

\* createDirectory(p): mkdirp resolves the path and issues fs.mkdir
CreateDirectory(i, p) ==
    /\ Ready(i)
    /\ Count(fs) + Missing(fs, Resolve(p)) <= MaxEntries
    /\ inv' = [inv EXCEPT ![i] = Mkdirp(Start(@, "createDirectory", p))]
    /\ pre' = [pre EXCEPT ![i] = fs]
    /\ UNCHANGED fs

\* fs.mkdir(cur) runs and mkdirp's callback handles its result
MkdirpMkdir(i) ==
    /\ inv[i].pc = "mkdir"
    /\ Len(inv[i].stack) < MaxFrames
    /\ LET r == FsMkdir(fs, inv[i].cur)
       IN  /\ fs' = r.fs
           /\ inv' = [inv EXCEPT ![i] = MkdirCallback(@, r)]
    /\ UNCHANGED pre

\* mkdirp that takes back what it created when it fails
MkdirpStatRollback(i) ==
    /\ inv[i].pc = "stat"
    /\ LET v == StatCallback(inv[i], FsStat(fs, inv[i].cur))
       IN  /\ inv' = [inv EXCEPT ![i] = v]
           /\ fs' = IF v.outcome = "rejected" /\ v.made # <<>>
                     THEN Cut(fs, v.made[1])
                     ELSE fs
    /\ UNCHANGED pre

\* fs.stat(cur) runs and mkdirp's callback handles its result
MkdirpStat(i) ==
    /\ inv[i].pc = "stat"
    /\ inv' = [inv EXCEPT ![i] = StatCallback(@, FsStat(fs, inv[i].cur))]
    /\ UNCHANGED <<fs, pre>>

\* exists(p): one fs.lstat
Exists(i, p) ==
    /\ Ready(i)
    /\ inv' = [inv EXCEPT ![i] = ExistsSettle(Start(@, "exists", p), ExistsProbe(fs, p).err)]
    /\ pre' = [pre EXCEPT ![i] = fs]
    /\ UNCHANGED fs

\* exists of src/index.ts, after `await stat(path)`:
\*   try { await stat(path); return true; }
\*   catch (err) { if (err.code === 'ENOENT') return false; else throw err; }
ExistsStatSettle(v, err) ==
    IF err = Null THEN Resolved(v, "true")
    ELSE IF err.code = "ENOENT" THEN Resolved(v, "false")
    ELSE Rejected(v, err)

\* exists(p) of src/index.ts: one fs.stat
ExistsStat(i, p) ==
    /\ Ready(i)
    /\ inv' = [inv EXCEPT ![i] = ExistsStatSettle(Start(@, "exists", p), FsStat(fs, p).err)]
    /\ pre' = [pre EXCEPT ![i] = fs]
    /\ UNCHANGED fs

\* delete(p): rimraf
Delete(i, p) ==
    /\ Ready(i)
    /\ LET r == Rimraf(fs, p)
       IN  /\ fs' = r.fs
           /\ inv' = [inv EXCEPT ![i] = DelSettle(Start(@, "delete", p), r.err)]
    /\ pre' = [pre EXCEPT ![i] = fs]

\* unlink(p)
Unlink(i, p) ==
    /\ Ready(i)
    /\ LET r == FsUnlink(fs, p)
       IN  /\ fs' = r.fs
           /\ pre' = [pre EXCEPT ![i] = r.fs]
           /\ inv' = [inv EXCEPT ![i] = Promisify(Start(@, "unlink", p), r.err, Void)]

\* writeTextFile(p, data, encoding, flags)
WriteTextFile(i, p, data, encoding, flags) ==
    /\ Ready(i)
    /\ Count(fs) < MaxEntries
    /\ Len(Entry(fs, p).data) + Len(Utf8Encode(data)) <= MaxBytes
    /\ LET o == WriteTextFileOptions(encoding, flags)
           r == WriteTextFileCall(fs, p, data, o)
           v == [Start(inv[i], "writeTextFile", p) EXCEPT
                     !.args = [data |-> data, encoding |-> encoding, flags |-> flags],
                     !.target = WriteTextFileTarget(o),
                     !.options = o,
                     !.old = Entry(fs, p)]
       IN  /\ fs' = r.fs
           /\ pre' = [pre EXCEPT ![i] = r.fs]
           /\ inv' = [inv EXCEPT ![i] = Promisify(v, r.err, Void)]

\* readTextFile(p, encoding, flags)
ReadTextFile(i, p, encoding, flags) ==
    /\ Ready(i)
    /\ LET o == ReadTextFileOptions(encoding, flags)
           r == FsReadFile(fs, p, o)
           v == [Start(inv[i], "readTextFile", p) EXCEPT
                     !.args = [data |-> <<>>, encoding |-> encoding, flags |-> flags],
                     !.target = "readFile",
                     !.options = o]
       IN  /\ fs' = r.fs
           /\ pre' = [pre EXCEPT ![i] = r.fs]
           /\ inv' = [inv EXCEPT ![i] = Promisify(v, r.err, Content(r.result))]

\* access(p): one fs.access
Access(i, p) ==
    /\ Ready(i)
    /\ inv' = [inv EXCEPT ![i] = AccessSettle(Start(@, "access", p), FsAccess(fs, p))]
    /\ pre' = [pre EXCEPT ![i] = fs]
    /\ UNCHANGED fs

\* mkdir(p): one fs.mkdir
Mkdir(i, p) ==
    /\ Ready(i)
    /\ Count(fs) < MaxEntries
    /\ LET r == FsMkdir(fs, p)
       IN  /\ fs' = r.fs
           /\ pre' = [pre EXCEPT ![i] = r.fs]
           /\ inv' = [inv EXCEPT ![i] = Promisify(Start(@, "mkdir", p), r.err, Void)]

\* symlink(t, p)
Symlink(i, t, p) ==
    /\ Ready(i)
    /\ Count(fs) < MaxEntries
    /\ LET r == FsSymlink(fs, t, p)
       IN  /\ fs' = r.fs
           /\ pre' = [pre EXCEPT ![i] = r.fs]
           /\ inv' = [inv EXCEPT ![i] = Promisify(Start(@, "symlink", p), r.err, Void)]

\* read(fd, buffer, offset, length, position)
Read(i, fd, buffer, offset, length, position) ==
    /\ Ready(i)
    /\ LET r == FsRead(fs, fd, buffer, offset, length, position)
       IN  /\ fs' = r.fs
           /\ pre' = [pre EXCEPT ![i] = r.fs]
           /\ inv' = [inv EXCEPT ![i] =
                         PromisifyResolver(Start(@, "read", fd.at), r,
                                           ArgumentsObject(5), NullValue)]

\* write(fd, buffer, offset, length, position)
Write(i, fd, buffer, offset, length, position) ==
    /\ Ready(i)
    /\ LET r == FsWrite(fs, fd, buffer, offset, length, position)
       IN  /\ fs' = r.fs
           /\ pre' = [pre EXCEPT ![i] = r.fs]
           /\ inv' = [inv EXCEPT ![i] =
                         PromisifyResolver(Start(@, "write", fd.at), r,
                                           ArgumentsObject(5), NullValue)]

\* read(fd, buffer, offset, length, position) of src/index.ts
ReadThunk(i, fd, buffer, offset, length, position) ==
    /\ Ready(i)
    /\ LET r == FsRead(fs, fd, buffer, offset, length, position)
       IN  /\ fs' = r.fs
           /\ pre' = [pre EXCEPT ![i] = r.fs]
           /\ inv' = [inv EXCEPT ![i] =
                         ThunkResolver(Start(@, "read", fd.at), r,
                                       ArgumentsObject(5), NullValue)]

\* another process creates a directory that a pending createDirectory is
\* about to ask for
OtherMkdir(q) ==
    /\ \E i \in Procs : inv[i].pc \in {"mkdir", "stat"} /\ IsPrefix(q, Resolve(inv[i].path))
    /\ FsMkdir(fs, q).err = Null
    /\ fs' = FsMkdir(fs, q).fs
    /\ UNCHANGED <<inv, pre>>

\* another process creates a file where a pending createDirectory is about
\* to create a directory
OtherWriteFile(q) ==
    /\ \E i \in Procs : inv[i].pc \in {"mkdir", "stat"} /\ IsPrefix(q, Resolve(inv[i].path))
    /\ WriteWithFlag(fs, q, <<>>, "utf8", <<"w", "x">>).err = Null
    /\ fs' = WriteWithFlag(fs, q, <<>>, "utf8", <<"w", "x">>).fs
    /\ UNCHANGED <<inv, pre>>

Init ==
    /\ fs = EmptyFs
    /\ inv = [i \in Procs |-> Idle]
    /\ pre = [i \in Procs |-> EmptyFs]

\* one caller awaiting each operation before it starts the next
Next ==
    \/ \E p \in InputPaths : CreateDirectory(Main, p)
    \/ MkdirpMkdir(Main)
    \/ MkdirpStat(Main)
    \/ \E p \in InputPaths : Exists(Main, p)
    \/ \E p \in InputPaths : Delete(Main, p)
    \/ \E p \in Paths : Unlink(Main, p)
    \/ \E p \in Paths : WriteTextFile(Main, p, <<>>, "undefined", Undefined)
    \/ \E p \in LinkPaths, t \in LinkTargets : Symlink(Main, t, p)

Spec == Init /\ [][Next]_vars

\* two callers have each invoked createDirectory and no fs call has run yet;
\* the names are interchangeable at every level of the tree, so the first
\* caller's path is taken on one lineage and the second's anywhere
InitConc ==
    /\ fs = EmptyFs
    /\ inv \in [Procs -> {Mkdirp(Start(Idle, "createDirectory", p)) : p \in Paths}]
    /\ inv[1].path \in SeqsUpTo({CHOOSE n \in Names : TRUE}, MaxDepth)
    /\ pre = [i \in Procs |-> EmptyFs]

\* the two invocations interleave, beside another process that creates
\* directories; nothing is deleted
NextConc ==
    \/ \E i \in Procs : MkdirpMkdir(i)
    \/ \E i \in Procs : MkdirpStat(i)
    \/ \E q \in Paths : OtherMkdir(q)

\* every fs call that was issued runs, and its callback after it
SpecConc ==
    /\ InitConc
    /\ [][NextConc]_vars
    /\ \A i \in Procs : WF_vars(MkdirpMkdir(i) \/ MkdirpStat(i))

\* the path the text-file operations work on (one name is as good as
\* another), and for the operations that only look, the paths beside and
\* below it too
TextPaths == {<<CHOOSE n \in Names : TRUE>>}
ProbePaths == {<<n>> : n \in Names} \cup {<<n, m>> : n \in Names, m \in Names}

\* one caller writing, reading and probing files, awaiting each operation
NextText ==
    \/ \E p \in TextPaths, d \in Data, e \in EncodingArgs, fl \in FlagArgs :
           WriteTextFile(Main, p, d, e, fl)
    \/ \E p \in ProbePaths, e \in EncodingArgs, fl \in FlagArgs :
           ReadTextFile(Main, p, e, fl)
    \/ \E p \in ProbePaths : Access(Main, p)
    \/ \E p \in TextPaths : Mkdir(Main, p)
    \/ \E p \in TextPaths : Unlink(Main, p)

SpecText == Init /\ [][NextText]_vars

\* the caller that uses the exists of src/index.ts
Legacy == CHOOSE i \in Procs : i # Main

\* one caller builds a tree of directories, files and links; then the same
\* question is put to the exists of src/unnamed/part_001 and, by a second
\* caller, to the exists of src/index.ts
Building == inv[Legacy].pc = "idle" /\ inv[Main].op # "exists"

NextExists ==
    \/ Building /\ \E p \in Paths : Mkdir(Main, p)
    \/ Building /\ \E p \in Paths : WriteTextFile(Main, p, <<>>, "undefined", Undefined)
    \/ Building /\ \E p \in LinkPaths, t \in LinkTargets : Symlink(Main, t, p)
    \/ Building /\ \E p \in Paths : Unlink(Main, p)
    \/ inv[Legacy].pc = "idle" /\ \E p \in InputPaths : Exists(Main, p)
    \/ inv[Main].op = "exists" /\ ExistsStat(Legacy, inv[Main].path)

SpecExists == Init /\ [][NextExists]_vars

\* descriptors of the file the text tests work on, and a closed one
Fds == {Fd(p, fl) : p \in TextPaths, fl \in {<<"r">>, <<"r", "+">>}} \cup {ClosedFd}

\* the buffers handed to read (Buffer.alloc) and to write, MaxBytes bytes each
ReadBuffers == {[k \in 1..MaxBytes |-> 0]}
WriteBuffers == {[k \in 1..MaxBytes |-> 104], [k \in 1..MaxBytes |-> IF k = 1 THEN 0 ELSE 104]}

\* offset, length and position that stay inside the buffer and inside a file
\* of MaxBytes bytes
Window(offset, length, position) ==
    /\ offset + length <= MaxBytes
    /\ position + length <= MaxBytes

\* one caller writes a text file and then reads and writes through
\* descriptors; a second caller reads with the read of src/index.ts
NextFd ==
    \/ \E p \in TextPaths, d \in Data : WriteTextFile(Main, p, d, "utf8", <<"w">>)
    \/ \E fd \in Fds, b \in ReadBuffers, o \in 0..MaxBytes, l \in 0..MaxBytes, q \in 0..MaxBytes :
           Window(o, l, q) /\ Read(Main, fd, b, o, l, q)
    \/ \E fd \in Fds, b \in WriteBuffers, o \in 0..MaxBytes, l \in 0..MaxBytes, q \in 0..MaxBytes :
           Window(o, l, q) /\ Write(Main, fd, b, o, l, q)
    \/ \E fd \in Fds, b \in ReadBuffers, o \in 0..MaxBytes, l \in 0..MaxBytes, q \in 0..MaxBytes :
           Window(o, l, q) /\ ReadThunk(Legacy, fd, b, o, l, q)

SpecFd == Init /\ [][NextFd]_vars

\* what the directory of the tests may hold when createDirectory is called:
\* under each name nothing, a directory, a file or a link to the other names
TopLevel ==
    {f \in [LinkPaths -> {<<"none">>, <<"dir">>, <<"file">>} \cup LinkTargets] :
        \A q \in LinkPaths : f[q] # q}

FsOf(t) ==
    [q \in {<<>>} \cup {x \in LinkPaths : t[x] # <<"none">>} |->
        IF q = <<>> THEN Dir
        ELSE IF t[q] = <<"dir">> THEN Dir
        ELSE IF t[q] = <<"file">> THEN File
        ELSE Link(t[q])]

\* the caller has invoked createDirectory and no fs call has run yet
InitRace ==
    /\ fs \in {FsOf(t) : t \in TopLevel}
    /\ \E p \in Paths :
           inv = [i \in Procs |-> IF i = Main
                                   THEN Mkdirp(Start(Idle, "createDirectory", p))
                                   ELSE Idle]
    /\ pre = [i \in Procs |-> fs]

\* the invocation runs beside another process that creates directories and
\* files on its way
NextRace ==
    \/ MkdirpMkdir(Main)
    \/ MkdirpStat(Main)
    \/ \E q \in Paths : OtherMkdir(q)
    \/ \E q \in Paths : OtherWriteFile(q)

SpecRace == InitRace /\ [][NextRace]_vars

\* the volume the paths name may be missing
InitVolume ==
    /\ fs \in {EmptyFs, NoVolume}
    /\ inv = [i \in Procs |-> Idle]
    /\ pre = [i \in Procs |-> EmptyFs]

\* one caller creating directories
NextVolume ==
    \/ \E p \in InputPaths : CreateDirectory(Main, p)
    \/ MkdirpMkdir(Main)
    \/ MkdirpStat(Main)

SpecVolume == InitVolume /\ [][NextVolume]_vars

(* ------------------------------ claims --------------------------------- *)

\* the invocation of the sequential caller finished an op
Finished(op) == inv[Main].op = op /\ inv[Main].pc = "done"

\* the resolved path of the sequential caller's invocation
P == Resolve(inv[Main].path)

\* q names a directory (links followed)
IsDirectory(f, q) == FsStat(f, q).err = Null /\ FsStat(f, q).kind = "dir"

\* below some directory b on p (all of whose ancestors are directories)
\* nothing of p exists, p included
FreshBelowBase(f, p) ==
    \E b \in Prefixes(p) \ {p} :
        /\ \A q \in Prefixes(b) : Kind(f, q) = "dir"
        /\ \A q \in Prefixes(p) : Len(q) > Len(b) => Kind(f, q) = "none"

\* C1: when nothing of p exists below an existing base directory,
\* createDirectory(p) succeeds and p and every ancestor of p are directories.
C1_FreshPathIsCreated ==
    (Finished("createDirectory") /\ FreshBelowBase(pre[Main], P))
        => /\ inv[Main].outcome = "resolved"
           /\ \A q \in Prefixes(P) : Kind(fs, q) = "dir"

C1_Witness ==
    /\ Finished("createDirectory")
    /\ FreshBelowBase(pre[Main], P)
    /\ Len(inv[Main].made) = 3
    /\ inv[Main].outcome = "resolved"

\* C2: from any filesystem state, when createDirectory(p) resolves, p and
\* every ancestor of p name existing directories.
C2_SuccessMeansDirectories ==
    (Finished("createDirectory") /\ inv[Main].outcome = "resolved")
        => \A q \in Prefixes(P) : IsDirectory(fs, q)

C2_Witness ==
    /\ Finished("createDirectory")
    /\ inv[Main].outcome = "resolved"
    /\ \E q \in Prefixes(P) : Kind(pre[Main], q) = "link"
    /\ inv[Main].made # <<>>

\* C3: a createDirectory(p) right after a successful createDirectory(p)
\* succeeds too and leaves the filesystem as the first call left it.
C3_Idempotent ==
    (Finished("createDirectory") /\ inv[Main].prevOp = "createDirectory"
        /\ inv[Main].prevRel = "same")
        => /\ inv[Main].outcome = "resolved"
           /\ fs = pre[Main]

C3_Witness ==
    /\ Finished("createDirectory")
    /\ inv[Main].prevOp = "createDirectory"
    /\ inv[Main].prevRel = "same"
    /\ inv[Main].outcome = "resolved"
    /\ Len(P) = 3
    /\ fs = pre[Main]

\* the entry a path names, a link in the last segment not followed
Lookup(f, p) == Walk(f, <<>>, p, FALSE, MaxHops)

\* what a path leads to, links followed
Target(f, p) == Walk(f, <<>>, p, TRUE, MaxHops)

HasEntry(f, p) == Lookup(f, p).st = "found"

\* a regular file occupies an ancestor segment of p
FileOnAncestor(f, p) == \E q \in Prefixes(p) \ {p} : Kind(f, q) = "file"

AncestorsPassable(f, p) ==
    \A q \in Prefixes(p) \ {p} :
        \/ Target(f, q).code = "ENOENT"
        \/ Target(f, q).st = "found" /\ Kind(f, Target(f, q).at) = "dir"

AfterSame(op) == inv[Main].prevOp = op /\ inv[Main].prevRel = "same"

\* C5 as stated: exists(p) resolves to false for every path with no entry
\* (also right after unlink(p)), and to true right after createDirectory(p)
\* succeeded or a file was created at p.
C5_ExistsAsStated ==
    Finished("exists")
        => /\ ~HasEntry(fs, P) => inv[Main].val = "false"
           /\ AfterSame("unlink") => inv[Main].val = "false"
           /\ (AfterSame("createDirectory") \/ AfterSame("writeTextFile"))
                  => inv[Main].val = "true"

\* C5, amended: exists(p) resolves to false for every path with no entry
\* whose ancestors are all directories or missing (also right after
\* unlink(p)); with no entry below a regular file or a link that does not
\* resolve it rejects; it resolves to true right after createDirectory(p)
\* succeeded or a file was created at p.
C5_ExistsAmended ==
    Finished("exists")
        => /\ (~HasEntry(fs, P) /\ AncestorsPassable(fs, P)) => inv[Main].val = "false"
           /\ (~HasEntry(fs, P) /\ ~AncestorsPassable(fs, P))
                  => inv[Main].outcome = "rejected"
           /\ AfterSame("unlink") => inv[Main].val = "false"
           /\ (AfterSame("createDirectory") \/ AfterSame("writeTextFile"))
                  => inv[Main].val = "true"

C5_Witness ==
    /\ Finished("exists")
    /\ AfterSame("unlink")
    /\ ~HasEntry(fs, P)
    /\ AncestorsPassable(fs, P)
    /\ inv[Main].val = "false"

\* p is a link whose target is missing
DanglingLink(f, p) ==
    /\ HasEntry(f, p)
    /\ Kind(f, Lookup(f, p).at) = "link"
    /\ Target(f, p).code = "ENOENT"

\* C6: exists(p) resolves to true when p is a dangling symbolic link.
C6_DanglingLinkExists ==
    (Finished("exists") /\ DanglingLink(fs, inv[Main].path))
        => inv[Main].outcome = "resolved" /\ inv[Main].val = "true"

C6_Witness ==
    /\ Finished("exists")
    /\ DanglingLink(fs, inv[Main].path)
    /\ inv[Main].val = "true"

\* C7: exists(p) turns no failure but ENOENT into false: when the metadata
\* query fails with another error, exists rejects with that error.
C7_OtherErrorsPropagate ==
    Finished("exists")
        => /\ inv[Main].val = "false" => Lookup(fs, inv[Main].path).code = "ENOENT"
           /\ Lookup(fs, inv[Main].path).code \notin {"OK", "ENOENT"}
                  => /\ inv[Main].outcome = "rejected"
                     /\ inv[Main].err =
                            SysErr(Lookup(fs, inv[Main].path).code, "lstat", inv[Main].path)

C7_Witness ==
    /\ Finished("exists")
    /\ Lookup(fs, inv[Main].path).code = "ENOTDIR"
    /\ inv[Main].outcome = "rejected"
    /\ inv[Main].err.code = "ENOTDIR"

\* the directory below which nothing of p exists
Base(f, p) ==
    CHOOSE b \in Prefixes(p) :
        /\ \A q \in Prefixes(b) : Kind(f, q) = "dir"
        /\ \A q \in Prefixes(p) : Len(q) > Len(b) => Kind(f, q) # "dir"

\* C8: createDirectory creates the missing directories top-down: what it has
\* created so far are the topmost missing segments of p in order, every entry
\* has a directory as its parent in every intermediate state, all of them are
\* there when it succeeds, and exists on an ancestor then resolves to true.
C8_TopDown ==
    /\ (inv[Main].op = "createDirectory" /\ FreshBelowBase(pre[Main], P))
           => LET b == Base(pre[Main], P)
                  made == inv[Main].made
              IN  /\ \A k \in 1..Len(made) : made[k] = SubSeq(P, 1, Len(b) + k)
                  /\ \A q \in DOMAIN fs \ {<<>>} : Kind(fs, Dirname(q)) = "dir"
                  /\ inv[Main].pc = "done" => Len(made) = Len(P) - Len(b)
    /\ (Finished("exists") /\ inv[Main].prevOp = "createDirectory"
           /\ inv[Main].prevRel = "under")
           => inv[Main].val = "true"

C8_Witness ==
    /\ inv[Main].op = "createDirectory"
    /\ inv[Main].pc = "mkdir"
    /\ pre[Main] = EmptyFs
    /\ Len(P) = 3
    /\ inv[Main].made = <<SubSeq(P, 1, 1), SubSeq(P, 1, 2)>>
    /\ inv[Main].cur = P

\* C10: after delete(p) succeeded nothing is left at p or beneath it, and
\* exists(p) resolves to false.
C10_DeletedIsGone ==
    /\ (Finished("delete") /\ inv[Main].outcome = "resolved")
           => /\ Lookup(fs, inv[Main].path).code = "ENOENT"
              /\ HasEntry(pre[Main], inv[Main].path)
                     => \A q \in DOMAIN fs :
                            ~IsPrefix(Lookup(pre[Main], inv[Main].path).at, q)
    /\ (Finished("exists") /\ AfterSame("delete")) => inv[Main].val = "false"

C10_Witness ==
    /\ Finished("delete")
    /\ inv[Main].outcome = "resolved"
    /\ HasEntry(pre[Main], inv[Main].path)
    /\ Kind(pre[Main], Lookup(pre[Main], inv[Main].path).at) = "dir"
    /\ \E q \in DOMAIN pre[Main] :
           /\ IsPrefix(Lookup(pre[Main], inv[Main].path).at, q)
           /\ Len(q) = Len(Lookup(pre[Main], inv[Main].path).at) + 2
    /\ Lookup(fs, inv[Main].path).code = "ENOENT"

Succeeded(i) ==
    /\ inv[i].pc = "done"
    /\ inv[i].outcome = "resolved"
    /\ \A q \in Prefixes(Resolve(inv[i].path)) : Kind(fs, q) = "dir"

\* C9: when createDirectory invocations interleave with each other and with
\* another process creating directories, and nothing is deleted, no
\* invocation fails, and every interleaving comes to where each invocation
\* has succeeded and the directories it was asked for exist.
C9_ConcurrentCreation ==
    /\ [](\A i \in Procs : inv[i].pc = "done" => Succeeded(i))
    /\ <>(\A i \in Procs : Succeeded(i))

C9_Witness ==
    /\ Succeeded(1)
    /\ Succeeded(2)
    /\ inv[1].path = inv[2].path
    /\ Len(Resolve(inv[1].path)) = 3
    /\ inv[1].made # <<>>
    /\ inv[2].made # <<>>

\* the encoding a text-file accessor works with when called with encoding e
EffectiveEncoding(e) == IF e \in Encodings THEN e ELSE "utf8"

\* the modes of type Flags that ask for appending
AppendModes == {<<"a">>, <<"a", "x">>, <<"a", "+">>, <<"a", "x", "+">>}

\* the sequential caller's invocation is a successful append-mode writeTextFile
AppendedOk(v) ==
    /\ v.op = "writeTextFile"
    /\ v.pc = "done"
    /\ v.outcome = "resolved"
    /\ v.args.flags \in AppendModes

\* a readTextFile of the path just appended to, in the encoding of the append
ReadsBack(v, w) ==
    /\ AppendedOk(v)
    /\ w.op = "readTextFile"
    /\ w.path = v.path
    /\ w.args.encoding \in {"undefined"} \cup Encodings
    /\ EffectiveEncoding(w.args.encoding) = EffectiveEncoding(v.args.encoding)

\* C11: an append-mode writeTextFile leaves the prior content of the file as
\* a prefix and adds exactly the new data at its end, and a readTextFile
\* right after it yields the text that was there followed by the new data:
\* the data alone on a new path.
C11_AppendRoundTrip ==
    /\ [](AppendedOk(inv[Main])
             => Entry(fs, P).data =
                    inv[Main].old.data
                        \o Encode(inv[Main].args.data,
                                  EffectiveEncoding(inv[Main].args.encoding)))
    /\ [][ReadsBack(inv[Main], inv'[Main])
             => /\ inv'[Main].outcome = "resolved"
                /\ inv'[Main].text =
                       Text("string",
                            Decode(inv[Main].old.data,
                                   EffectiveEncoding(inv[Main].args.encoding))
                                \o inv[Main].args.data)]_vars

C11_Witness ==
    /\ AppendedOk(inv[Main])
    /\ inv[Main].old = [kind |-> "file", data |-> <<104>>]
    /\ inv[Main].args.data = <<104>>
    /\ Entry(fs, P).data = <<104, 104>>

\* C12: writeTextFile calls the append primitive for every append mode and
\* the truncate-and-write primitive for every other mode, the default
\* included; a write that is not in an append mode replaces what the file
\* held.
C12_Dispatch ==
    Finished("writeTextFile")
        => /\ inv[Main].args.flags \in AppendModes => inv[Main].target = "appendFile"
           /\ inv[Main].args.flags \notin AppendModes => inv[Main].target = "writeFile"
           /\ (inv[Main].args.flags \notin AppendModes /\ inv[Main].outcome = "resolved")
                  => Entry(fs, P).data =
                         Encode(inv[Main].args.data,
                                EffectiveEncoding(inv[Main].args.encoding))

C12_Witness ==
    /\ Finished("writeTextFile")
    /\ inv[Main].args.flags = Undefined
    /\ inv[Main].target = "writeFile"
    /\ inv[Main].old = [kind |-> "file", data |-> <<233>>]
    /\ inv[Main].args.data = <<104>>
    /\ Entry(fs, P).data = <<104>>

\* what the primitive behind the wrapper w.op reports, called in filesystem f
\* with what the invocation w handed over: its error and its result
Reported(f, w) ==
    CASE w.op = "readTextFile" ->
             LET r == FsReadFile(f, w.path, w.options)
             IN  [err |-> r.err, result |-> Content(r.result)]
      [] w.op = "writeTextFile" ->
             [err |-> WriteTextFileCall(f, w.path, w.args.data, w.options).err,
              result |-> Void]
      [] w.op = "unlink" -> [err |-> FsUnlink(f, w.path).err, result |-> Void]
      [] w.op = "mkdir" -> [err |-> FsMkdir(f, w.path).err, result |-> Void]
      [] OTHER -> [err |-> Null, result |-> Void]

PassThrough == {"readTextFile", "writeTextFile", "unlink", "mkdir"}

C14_AccessNeverRejects ==
    Finished("access")
        => /\ inv[Main].outcome = "resolved"
           /\ inv[Main].calls = 1
           /\ Target(fs, inv[Main].path).st = "found" => inv[Main].val = "true"
           /\ Target(fs, inv[Main].path).st # "found" => inv[Main].val = "false"

C14_Witness ==
    /\ Finished("access")
    /\ Target(fs, inv[Main].path).code = "ENOTDIR"
    /\ inv[Main].outcome = "resolved"
    /\ inv[Main].val = "false"

\* C15 as stated: createDirectory runs to completion or failure whatever the
\* path and the filesystem: while it runs a filesystem call is due and every
\* mkdirp frame waits for the frame of its own parent directory, so the walk
\* up ends after as many frames as the path has segments, at the root
\* included; createDirectory's callback is called once, when mkdirp is done.
C15_RunsToCompletion ==
    inv[Main].op = "createDirectory"
        => /\ inv[Main].calls <= 1
           /\ inv[Main].pc = "done" <=> inv[Main].calls = 1
           /\ inv[Main].pc \in {"mkdir", "stat"}
                  => Len(inv[Main].cur) + Len(inv[Main].stack) = Len(P)

C17_OtherCreationErrors ==
    (Finished("createDirectory")
        /\ FsMkdir(pre[Main], P).err.code \notin {"null", "ENOENT", "EEXIST"})
        => /\ inv[Main].outcome = "rejected"
           /\ inv[Main].err = FsMkdir(pre[Main], P).err

\* the places createDirectory(p) may put a directory: where p and its
\* ancestors lead to (links followed) once the directory is there
OnLineage(f, p, q) ==
    \E a \in Prefixes(p) : Target(f, a).st = "found" /\ Target(f, a).at = q

\* C18: a step of createDirectory(p) changes nothing in the filesystem or
\* adds one directory at p or at an ancestor of p: it removes and alters no
\* entry and touches nothing off the lineage of p; and the directories it
\* created stay in place, also when a later step fails.
C18_Frame ==
    /\ [](inv[Main].op = "createDirectory"
             => \A k \in DOMAIN inv[Main].made : Kind(fs, inv[Main].made[k]) = "dir")
    /\ [][(inv[Main].pc \in {"mkdir", "stat"} /\ inv'[Main] # inv[Main])
             => \/ fs' = fs
                \/ \E q \in Paths \ DOMAIN fs :
                       /\ fs' = Put(fs, q, Dir)
                       /\ OnLineage(fs', P, q)]_vars

C18_Witness ==
    /\ Finished("createDirectory")
    /\ inv[Main].outcome = "rejected"
    /\ Len(inv[Main].made) = 2
    /\ \A k \in DOMAIN inv[Main].made : Kind(fs, inv[Main].made[k]) = "dir"
    /\ \E q \in DOMAIN pre[Main] : Kind(pre[Main], q) = "file"

NotSupplied(encoding) == encoding \in {"undefined", "null"}

\* C19 as stated: readTextFile and writeTextFile fill in the defaults when
\* the caller passes undefined or null: the encoding handed to the primitive
\* is utf8, the open mode 'r' for readTextFile and 'w' for writeTextFile,
\* and readTextFile then resolves with a string.
C19_Defaults ==
    /\ (Finished("readTextFile") \/ Finished("writeTextFile"))
           => /\ NotSupplied(inv[Main].args.encoding)
                     => inv[Main].options.encoding = "utf8"
              /\ inv[Main].args.flags \in {Undefined, NullArg}
                     => inv[Main].options.flags =
                            (IF inv[Main].op = "readTextFile" THEN <<"r">> ELSE <<"w">>)
    /\ (Finished("readTextFile") /\ inv[Main].outcome = "resolved"
           /\ NotSupplied(inv[Main].args.encoding))
           => inv[Main].text.type = "string"

\* p led to a file before the call (links followed)
Occupied(old) == old.kind = "file"

\* C20 as stated: the open mode passed to writeTextFile is the one the
\* write primitive applies: with an exclusive mode ('wx', 'ax') writeTextFile
\* fails when the path exists already and leaves the content of the file as
\* it was.
C20_ExclusiveModes ==
    (Finished("writeTextFile")
        /\ inv[Main].args.flags \in {<<"w", "x">>, <<"a", "x">>}
        /\ Occupied(inv[Main].old))
        => /\ inv[Main].outcome = "rejected"
           /\ Entry(fs, P) = inv[Main].old

\* both implementations of exists have answered the same question: the same
\* path on the same filesystem
BothAsked ==
    /\ inv[Main].op = "exists" /\ inv[Main].pc = "done"
    /\ inv[Legacy].op = "exists" /\ inv[Legacy].pc = "done"
    /\ inv[Legacy].path = inv[Main].path
    /\ pre[Legacy] = pre[Main]

\* C22 as stated: the exists of src/index.ts (fs.stat) and the exists of
\* src/unnamed/part_001 (fs.lstat) give the same outcome for every path and
\* every filesystem, dangling links included: both true, both false, or
\* both rejected with the same error code.
C22_ExistsEquivalent ==
    BothAsked
        => /\ inv[Legacy].outcome = inv[Main].outcome
           /\ inv[Legacy].val = inv[Main].val
           /\ inv[Legacy].err.code = inv[Main].err.code

\* C21 as stated: read and write settle, and on success they resolve with
\* {bytesRead, buffer} (or {written, buffer}) whose fields are the byte count
\* and the buffer that fs.read (fs.write) handed to its callback.
C21_ReadWriteResult ==
    \A i \in Procs :
        inv[i].op \in {"read", "write"}
            => /\ inv[i].pc = "done"
               /\ inv[i].outcome = "resolved" => inv[i].result = inv[i].reported

====
